---- MODULE Spec2Model ----
(***************************************************************************)
(* The "Wealth & Health of Nations" page: the sparse series interpolator   *)
(* (interpolateValues), the frame composer (interpolateData), the draw     *)
(* order (order), and the two drivers of the displayed year: the timed     *)
(* sweep (svg.transition ... tween("year", tweenYear)) and the pointer     *)
(* scrub (enableInteraction / mousemove).                                  *)
(*                                                                         *)
(* JavaScript numbers are modelled as exact rationals extended with        *)
(* +Infinity, -Infinity and NaN, which is what a division by zero yields   *)
(* in the code.  Rounding of IEEE doubles is not modelled.                 *)
(***************************************************************************)
EXTENDS Integers, Sequences, FiniteSets, TLC

VARIABLES
    \* ---- the page ----
    nations,        \* the loaded dataset (d3.json callback argument)
    dot,            \* data bound to the circles, in document (drawing) order
    label,          \* text of the year label
    active,         \* whether the label carries the class "active"
    sweep,          \* state of the 30 s transition on svg
    elapsed,        \* frames of the sweep's duration that have elapsed
    pending,        \* a zero-duration transition was created and not yet started
    onMouseover,    \* the overlay's mouseover listener
    onMousemove,    \* whether mouseout/mousemove/touchmove listeners are bound
    frame,          \* the array returned by the latest interpolateData call
    shown,          \* the latest year displayed: [year, by, at], by the initial
                    \* draw, the sweep (at = t) or the pointer (at = mouse x)
    scrubbed,       \* a pointer-driven displayYear has occurred
    enabledByPointer, \* times the pointer's mouseover ran enableInteraction
    \* ---- one call of interpolateValues ----
    pc, values, year, result

vars == <<nations, dot, label, active, sweep, elapsed, pending, onMouseover,
          onMousemove, frame, shown, scrubbed, enabledByPointer,
          pc, values, year, result>>

pageVars == <<nations, dot, label, active, sweep, elapsed, pending, onMouseover,
              onMousemove, frame, shown, scrubbed, enabledByPointer>>

callVars == <<pc, values, year, result>>

----------------------------------------------------------------------------
(* JavaScript numbers: [k |-> "fin", n, d] is n/d in lowest terms, d > 0;  *)
(* [k |-> "inf", n |-> +1 or -1] is +-Infinity; [k |-> "nan"] is NaN.      *)

Abs(x) == IF x < 0 THEN -x ELSE x

Sgn(x) == IF x < 0 THEN -1 ELSE IF x > 0 THEN 1 ELSE 0

RECURSIVE Gcd(_, _)
Gcd(a, b) == IF b = 0 THEN a ELSE Gcd(b, a % b)

NaN == [k |-> "nan", n |-> 0, d |-> 0]

Inf(s) == [k |-> "inf", n |-> s, d |-> 0]

\* n/d with d # 0, in lowest terms with a positive denominator
Frac(n, d) ==
    LET g == Gcd(Abs(n), Abs(d))
    IN  [k |-> "fin", n |-> Sgn(d) * (n \div g), d |-> Abs(d) \div g]

Num(i) == [k |-> "fin", n |-> i, d |-> 1]

IsFinite(x) == x.k = "fin"

\* x + y
Add(x, y) ==
    IF x.k = "nan" \/ y.k = "nan" THEN NaN
    ELSE IF x.k = "inf" /\ y.k = "inf" THEN (IF x.n = y.n THEN x ELSE NaN)
    ELSE IF x.k = "inf" THEN x
    ELSE IF y.k = "inf" THEN y
    ELSE Frac(x.n * y.d + y.n * x.d, x.d * y.d)

\* x * y
Mul(x, y) ==
    IF x.k = "nan" \/ y.k = "nan" THEN NaN
    ELSE IF x.k = "inf" \/ y.k = "inf"
         THEN (IF Sgn(x.n) * Sgn(y.n) = 0 THEN NaN ELSE Inf(Sgn(x.n) * Sgn(y.n)))
    ELSE Frac(x.n * y.n, x.d * y.d)

Neg(x) == IF x.k = "nan" THEN NaN ELSE [x EXCEPT !.n = -x.n]

\* x - y
Sub(x, y) == Add(x, Neg(y))

\* x / y: a finite number over zero is +-Infinity, zero over zero is NaN
Div(x, y) ==
    IF x.k = "nan" \/ y.k = "nan" THEN NaN
    ELSE IF x.k = "inf" THEN (IF y.k = "inf" THEN NaN
                              ELSE Inf(x.n * (IF y.n < 0 THEN -1 ELSE 1)))
    ELSE IF y.k = "inf" THEN Num(0)
    ELSE IF y.n = 0 THEN (IF x.n = 0 THEN NaN ELSE Inf(Sgn(x.n)))
    ELSE Frac(x.n * y.d, x.d * y.n)

\* x < y (false when either is NaN)
Lt(x, y) ==
    /\ x.k # "nan" /\ y.k # "nan"
    /\ IF x.k = "inf" THEN x.n = -1 /\ ~(y.k = "inf" /\ y.n = -1)
       ELSE IF y.k = "inf" THEN y.n = 1
       ELSE x.n * y.d < y.n * x.d

\* x <= y (false when either is NaN)
Le(x, y) == x.k # "nan" /\ y.k # "nan" /\ ~Lt(y, x)

\* Math.round: the integer nearest x, halves rounded up
Round(x) == IF x.k = "fin" THEN Num((2 * x.n + x.d) \div (2 * x.d)) ELSE x

----------------------------------------------------------------------------
(* The interpolator.  A series is a sequence of <<year, value>> pairs of   *)
(* integers; the code's index i (from 0) is element i + 1 here.            *)

\* d3.bisector(function(d) { return d[0]; }).left(a, x, lo, hi)
RECURSIVE bisectLeft(_, _, _, _)
bisectLeft(a, x, lo, hi) ==
    IF lo < hi
    THEN LET mid == (lo + hi) \div 2
         IN  IF Lt(Num(a[mid + 1][1]), x)
             THEN bisectLeft(a, x, mid + 1, hi)
             ELSE bisectLeft(a, x, lo, mid)
    ELSE lo

\* a plausible slip: the search starts at index 1 so that values[i - 1] exists
interpolateValues_lo1(vals, yr) ==
    LET i == bisectLeft(vals, yr, 1, Len(vals) - 1)
        a == vals[i + 1]
    IN  IF i > 0 /\ Len(vals) > 1
        THEN LET b == vals[i]
                 t == Div(Sub(yr, Num(a[1])), Sub(Num(b[1]), Num(a[1])))
             IN  Add(Mul(Num(a[2]), Sub(Num(1), t)), Mul(Num(b[2]), t))
        ELSE Num(vals[1][2])

\* a plausible slip: the fraction measured from the earlier sample, as in the
\* textbook formula, with the code's weights
interpolateValues_tFromEarlier(vals, yr) ==
    LET i == bisectLeft(vals, yr, 0, Len(vals) - 1)
        a == vals[i + 1]
    IN  IF i > 0
        THEN LET b == vals[i]
                 t == Div(Sub(yr, Num(b[1])), Sub(Num(a[1]), Num(b[1])))
             IN  Add(Mul(Num(a[2]), Sub(Num(1), t)), Mul(Num(b[2]), t))
        ELSE Num(a[2])

\* a plausible slip: a query past the last sample answered with the last value
interpolateValues_clampLast(vals, yr) ==
    LET i == bisectLeft(vals, yr, 0, Len(vals) - 1)
        a == vals[i + 1]
    IN  IF i > 0 /\ Le(yr, Num(a[1]))
        THEN LET b == vals[i]
                 t == Div(Sub(yr, Num(a[1])), Sub(Num(b[1]), Num(a[1])))
             IN  Add(Mul(Num(a[2]), Sub(Num(1), t)), Mul(Num(b[2]), t))
        ELSE Num(a[2])

\* a plausible slip: the two weights exchanged
interpolateValues_weightsSwapped(vals, yr) ==
    LET i == bisectLeft(vals, yr, 0, Len(vals) - 1)
        a == vals[i + 1]
    IN  IF i > 0
        THEN LET b == vals[i]
                 t == Div(Sub(yr, Num(a[1])), Sub(Num(b[1]), Num(a[1])))
             IN  Add(Mul(Num(a[2]), t), Mul(Num(b[2]), Sub(Num(1), t)))
        ELSE Num(a[2])

\* function interpolateValues(values, year)
interpolateValues(vals, yr) ==
    LET i == bisectLeft(vals, yr, 0, Len(vals) - 1)
        a == vals[i + 1]
    IN  IF i > 0
        THEN LET b == vals[i]
                 t == Div(Sub(yr, Num(a[1])), Sub(Num(b[1]), Num(a[1])))
             IN  Add(Mul(Num(a[2]), Sub(Num(1), t)), Mul(Num(b[2]), t))
        ELSE Num(a[2])

----------------------------------------------------------------------------
(* Inputs of a single call of interpolateValues.                           *)

MaxLen == 3

SampleYears == {1800, 1900, 2000}

SampleValues == {10, 20, 40}

\* query years before, at, between and after the sample years
QueryYears ==
    {Num(y) : y \in {1700, 1800, 1850, 1900, 1950, 2000, 2050}}
        \cup {Frac(3725, 2), Frac(5801, 3)}

\* sorted ascending by year; equal years are allowed
IsSorted(s) == \A j \in 1..(Len(s) - 1) : s[j][1] <= s[j + 1][1]

IsStrict(s) == \A j \in 1..(Len(s) - 1) : s[j][1] < s[j + 1][1]

SeriesOfLen(n) ==
    {s \in [1..n -> SampleYears \X SampleValues] : IsSorted(s)}

AllSeries == UNION {SeriesOfLen(n) : n \in 1..MaxLen}

NoResult == [k |-> "none", n |-> 0, d |-> 0]

PageIdle ==
    /\ nations = <<>>
    /\ dot = <<>>
    /\ label = Num(0)
    /\ active = FALSE
    /\ sweep = "NONE"
    /\ elapsed = 0
    /\ pending = FALSE
    /\ onMouseover = "none"
    /\ onMousemove = FALSE
    /\ frame = <<>>
    /\ shown = [year |-> Num(0), by |-> "none", at |-> Num(0)]
    /\ scrubbed = FALSE
    /\ enabledByPointer = 0

InitCall ==
    /\ pc = "call"
    /\ values \in AllSeries
    /\ year \in QueryYears
    /\ result = NoResult
    /\ PageIdle

\* result = interpolateValues(values, year)
CallInterpolateValues ==
    /\ pc = "call"
    /\ result' = interpolateValues(values, year)
    /\ pc' = "returned"
    /\ UNCHANGED <<values, year>>
    /\ UNCHANGED pageVars

NextCall == CallInterpolateValues

SpecCall == InitCall /\ [][NextCall]_vars

----------------------------------------------------------------------------
(* The page.                                                               *)

\* function radius(d) { return d.population; }
radius(d) == d.population

\* function key(d) { return d.name; }
key(d) == d.name

\* a plausible slip: income and population exchanged in the snapshot
interpolateData_fieldsSwapped(yr) ==
    [k \in 1..Len(nations) |->
        [name |-> nations[k].name,
         region |-> nations[k].region,
         income |-> interpolateValues(nations[k].population, yr),
         population |-> interpolateValues(nations[k].income, yr),
         lifeExpectancy |-> interpolateValues(nations[k].lifeExpectancy, yr)]]

\* function interpolateData(year): nations.map(...)
interpolateData(yr) ==
    [k \in 1..Len(nations) |->
        [name |-> nations[k].name,
         region |-> nations[k].region,
         income |-> interpolateValues(nations[k].income, yr),
         population |-> interpolateValues(nations[k].population, yr),
         lifeExpectancy |-> interpolateValues(nations[k].lifeExpectancy, yr)]]

\* function order(a, b) { return radius(b) - radius(a); }
order(a, b) == Sub(radius(b), radius(a))

\* Array.prototype.sort with the comparator order, which is stable: x is put
\* behind every element it does not have to precede
RECURSIVE insertInOrder(_, _)
insertInOrder(s, x) ==
    IF s # <<>> /\ Lt(Num(0), order(s[Len(s)], x))
    THEN Append(insertInOrder(SubSeq(s, 1, Len(s) - 1), x), s[Len(s)])
    ELSE Append(s, x)

RECURSIVE sortByOrder(_)
sortByOrder(s) ==
    IF s = <<>> THEN <<>>
    ELSE insertInOrder(sortByOrder(SubSeq(s, 1, Len(s) - 1)), s[Len(s)])

permutationsOf(s) ==
    {[j \in 1..Len(s) |-> s[p[j]]] :
        p \in {q \in [1..Len(s) -> 1..Len(s)] :
                  \A i, j \in 1..Len(s) : q[i] = q[j] => i = j}}

\* selection.sort(order): the orders the marks can end up in.  When the
\* comparator returns NaN for some pair it is not a consistent comparator
\* and the resulting order is implementation-defined.
sorted(s) ==
    IF \E i, j \in 1..Len(s) : i # j /\ order(s[i], s[j]).k = "nan"
    THEN permutationsOf(s)
    ELSE {sortByOrder(s)}

\* dot.data(data, key): the update selection, in the order of data, of the
\* data whose key is the key of an existing mark
dataJoin(marks, data) ==
    SelectSeq(data, LAMBDA d : \E j \in 1..Len(marks) : key(marks[j]) = key(d))

StartYear == 1800

EndYear == 2009

\* d3.interpolateNumber(a, b)(t)
interpolateNumber(a, b, t) ==
    Add(Mul(Num(a), Sub(Num(1), t)), Mul(Num(b), t))

\* the bounding box of the year label (label.node().getBBox())
BoxX == 100

BoxWidth == 22

\* a plausible slip: the scale is not clamped
yearScaleInvert_unclamped(x) ==
    LET r0 == BoxX + 10
        r1 == BoxX + BoxWidth - 10
    IN  interpolateNumber(StartYear, EndYear, Div(Num(x - r0), Num(r1 - r0)))

\* yearScale.invert(x), for yearScale = d3.scaleLinear().domain([1800, 2009])
\*     .range([box.x + 10, box.x + box.width - 10]).clamp(true)
yearScaleInvert(x) ==
    LET r0 == BoxX + 10
        r1 == BoxX + BoxWidth - 10
        t  == Div(Num(x - r0), Num(r1 - r0))
    IN  IF Le(t, Num(0)) THEN Num(StartYear)
        ELSE IF Le(Num(1), t) THEN Num(EndYear)
        ELSE interpolateNumber(StartYear, EndYear, t)

\* function displayYear(year), called by the sweep or by the pointer.  The
\* attributes that position sets (cx, cy, r) are functions of the bound data
\* and are not represented.
displayYear(yr, by, at) ==
    /\ frame' = interpolateData(yr)
    /\ dot' \in sorted(dataJoin(dot, interpolateData(yr)))
    /\ label' = Round(yr)
    /\ shown' = [year |-> yr, by |-> by, at |-> at]

\* the function returned by tweenYear, applied to t
tweenYear(t) == displayYear(interpolateNumber(StartYear, EndYear, t), "sweep", t)

\* a plausible slip: the mouseover listener is not replaced
enableInteraction_keepsListener ==
    /\ pending' = TRUE
    /\ onMouseover' = "enableInteraction"
    /\ onMousemove' = TRUE

\* function enableInteraction(): svg.transition().duration(0) creates a new
\* transition on svg, which interrupts the running one when it starts, at
\* the next timer frame; the overlay's listeners are bound
enableInteraction ==
    /\ pending' = TRUE
    /\ onMouseover' = "mouseover"
    /\ onMousemove' = TRUE

----------------------------------------------------------------------------
(* The dataset: one entity per name, its three series drawn from menus.    *)

NumNations == 2

Names == <<"Aland", "Borduria", "Costaguana", "Dinotopia">>

Regions == <<"Europe", "Asia", "America", "Europe">>

IncomeMenu == {<<<<1800, 300>>, <<2009, 900>>>>}

LifeMenu == {<<<<1800, 30>>, <<1900, 40>>, <<2000, 80>>>>}

\* strictly increasing years, and one series with a repeated year
PopulationMenu ==
    {<<<<1800, 10>>>>,
     <<<<1800, 40>>, <<1900, 20>>>>,
     <<<<1850, 10>>, <<2009, 30>>>>,
     <<<<1900, 20>>, <<1900, 30>>>>}

Datasets ==
    {d \in [1..NumNations ->
                [name : {Names[k] : k \in 1..NumNations},
                 region : {Regions[k] : k \in 1..NumNations},
                 income : IncomeMenu,
                 population : PopulationMenu,
                 lifeExpectancy : LifeMenu]] :
        \A k \in 1..NumNations :
            d[k].name = Names[k] /\ d[k].region = Regions[k]}

----------------------------------------------------------------------------
(* The drivers.  All handlers run to completion on one thread; a timer     *)
(* frame runs every due timer callback of d3 in one step.                  *)

\* frames the sweep's 30000 ms last
SweepFrames == 3

\* frames of time that can pass between two timer frames
MaxStep == 2

\* pointer positions beyond the two ends of the scale's range
Margin == 1

PointerXs == (BoxX + 10 - Margin)..(BoxX + BoxWidth - 10 + Margin)

CallIdle ==
    /\ pc = "idle"
    /\ values = <<>>
    /\ year = Num(0)
    /\ result = NoResult

\* the state at the end of the d3.json callback: the dots drawn for 1800,
\* the overlay listening for mouseover, the sweep scheduled
Init ==
    /\ nations \in Datasets
    /\ frame = interpolateData(Num(StartYear))
    /\ dot \in sorted(interpolateData(Num(StartYear)))
    /\ label = Num(StartYear)
    /\ active = FALSE
    /\ sweep = "SCHEDULED"
    /\ elapsed = 0
    /\ pending = FALSE
    /\ onMouseover = "enableInteraction"
    /\ onMousemove = FALSE
    /\ shown = [year |-> Num(StartYear), by |-> "initial", at |-> Num(0)]
    /\ scrubbed = FALSE
    /\ enabledByPointer = 0
    /\ CallIdle

SweepLive == sweep \in {"SCHEDULED", "RUNNING"}

Min(a, b) == IF a < b THEN a ELSE b

\* A timer frame.  The sweep's timer is older than the timer of any
\* transition created by enableInteraction, so the sweep ticks first: it
\* calls the tween with t = elapsed / duration, or with 1 when the duration
\* is over, and then dispatches "end", which runs enableInteraction.  Then a
\* pending transition starts and interrupts the sweep if it is still running.
AnimationFrame ==
    /\ SweepLive \/ pending
    /\ \E step \in 0..MaxStep :
        LET e == Min(elapsed + step, SweepFrames)
        IN  /\ step = 0 => sweep = "SCHEDULED"
            /\ step > 1 => SweepLive
            /\ IF SweepLive
               THEN /\ elapsed' = e
                    /\ tweenYear(Frac(e, SweepFrames))
                    /\ IF e = SweepFrames
                       THEN sweep' = "ENDED" /\ enableInteraction
                       ELSE /\ sweep' = IF pending THEN "INTERRUPTED" ELSE "RUNNING"
                            /\ pending' = FALSE
                            /\ UNCHANGED <<onMouseover, onMousemove>>
               ELSE /\ pending' = FALSE
                    /\ UNCHANGED <<elapsed, sweep, frame, dot, label, shown,
                                   onMouseover, onMousemove>>
    /\ UNCHANGED <<nations, active, scrubbed, enabledByPointer>>
    /\ UNCHANGED callVars

\* mouseover on the overlay while its listener is enableInteraction
MouseoverEnables ==
    /\ onMouseover = "enableInteraction"
    /\ enableInteraction
    /\ enabledByPointer' = Min(enabledByPointer + 1, 2)
    /\ UNCHANGED <<nations, dot, label, active, sweep, elapsed, frame, shown,
                   scrubbed>>
    /\ UNCHANGED callVars

\* function mouseover() { label.classed("active", true); }
Mouseover ==
    /\ onMouseover = "mouseover"
    /\ active' = TRUE
    /\ UNCHANGED <<nations, dot, label, sweep, elapsed, pending, onMouseover,
                   onMousemove, frame, shown, scrubbed, enabledByPointer>>
    /\ UNCHANGED callVars

\* function mouseout() { label.classed("active", false); }
Mouseout ==
    /\ onMousemove
    /\ active' = FALSE
    /\ UNCHANGED <<nations, dot, label, sweep, elapsed, pending, onMouseover,
                   onMousemove, frame, shown, scrubbed, enabledByPointer>>
    /\ UNCHANGED callVars

\* function mousemove() { displayYear(yearScale.invert(d3.mouse(this)[0])); }
mousemove(x) ==
    /\ onMousemove
    /\ displayYear(yearScaleInvert(x), "pointer", Num(x))
    /\ scrubbed' = TRUE
    /\ UNCHANGED <<nations, active, sweep, elapsed, pending, onMouseover,
                   onMousemove, enabledByPointer>>
    /\ UNCHANGED callVars

\* mousemove or touchmove on the overlay: both are bound to mousemove
Mousemove == \E x \in PointerXs : mousemove(x)

Next ==
    \/ AnimationFrame
    \/ MouseoverEnables
    \/ Mouseover
    \/ Mouseout
    \/ Mousemove

Spec == Init /\ [][Next]_vars

----------------------------------------------------------------------------
(* Claims about a single call of interpolateValues (SpecCall).             *)

Returned == pc = "returned"

First(s) == s[1]

Last(s) == s[Len(s)]

ExampleSeries == <<<<1800, 10>>, <<1900, 20>>, <<2000, 40>>>>

\* C1: for a non-empty series sorted ascending by year and a query year at or
\* before the first sample's year, interpolateValues returns exactly the first
\* sample's value (no extrapolation before the first sample).
C1_ClampedToFirst ==
    (Returned /\ Le(year, Num(First(values)[1])))
        => result = Num(First(values)[2])

\* the spec's example: the series 1800:10, 1900:20, 2000:40 queried at 1700
C1_Witness ==
    /\ Returned
    /\ values = ExampleSeries
    /\ year = Num(1700)
    /\ result = Num(10)

\* C2 as stated: for every sorted series, equal years allowed, and every
\* index k, a query at sample k's year returns exactly sample k's value.
C2_ExactHitAnySorted ==
    Returned =>
        \A k \in 1..Len(values) :
            year = Num(values[k][1]) => result = Num(values[k][2])

\* C2 amended: for every series with strictly increasing years and every
\* index k (first and last included), a query at sample k's year returns
\* exactly sample k's value.
C2_ExactHitStrict ==
    (Returned /\ IsStrict(values)) =>
        \A k \in 1..Len(values) :
            year = Num(values[k][1]) => result = Num(values[k][2])

\* an exact hit on the last sample of a three-sample series
C2_Witness ==
    /\ Returned
    /\ IsStrict(values)
    /\ Len(values) = 3
    /\ year = Num(Last(values)[1])
    /\ result = Num(Last(values)[2])
    /\ Last(values)[2] # values[2][2]

\* the leftmost index (from 1) whose sample year is at or after yr
Leftmost(s, yr) ==
    CHOOSE i \in 1..Len(s) :
        /\ Le(yr, Num(s[i][1]))
        /\ \A j \in 1..(i - 1) : Lt(Num(s[j][1]), yr)

\* the reference interpolation: the fraction is measured from the earlier
\* sample b, and the result is b.value * (1 - t) + a.value * t
Reference(s, yr) ==
    LET i == Leftmost(s, yr)
        a == s[i]
        b == s[i - 1]
        t == Div(Sub(yr, Num(b[1])), Sub(Num(a[1]), Num(b[1])))
    IN  Add(Mul(Num(b[2]), Sub(Num(1), t)), Mul(Num(a[2]), t))

\* C3: for a series with strictly increasing years and a query year after the
\* first sample's year and at or before the last sample's year,
\* interpolateValues equals the reference linear interpolation between the
\* sample at or after the query and the one before it.
C3_MatchesReference ==
    (/\ Returned
     /\ IsStrict(values)
     /\ Lt(Num(First(values)[1]), year)
     /\ Le(year, Num(Last(values)[1])))
        => result = Reference(values, year)

\* the spec's example: the series 1800:10, 1900:20, 2000:40 queried at 1950
C3_Witness ==
    /\ Returned
    /\ values = ExampleSeries
    /\ year = Num(1950)
    /\ result = Num(30)

\* two adjacent samples carry the same year
HasDuplicateYear(s) == \E j \in 1..(Len(s) - 1) : s[j][1] = s[j + 1][1]

\* C9: for a sorted series in which two adjacent samples have the same year,
\* and every query year, interpolateValues divides by no zero year difference
\* and returns a defined finite value.
C9_DivisionByZeroGuarded ==
    (Returned /\ HasDuplicateYear(values)) => IsFinite(result)

\* the straight line through the last two samples, evaluated at yr
Extrapolation(s, yr) ==
    LET last == Last(s)
        prev == s[Len(s) - 1]
    IN  Add(Num(last[2]),
            Mul(Sub(yr, Num(last[1])),
                Div(Num(last[2] - prev[2]), Num(last[1] - prev[1]))))

\* C10: for a series of at least two samples with strictly increasing years
\* and a query year after the last sample's year, interpolateValues returns
\* the linear extrapolation through the last two samples, not the last value;
\* for a one-sample series it returns that sample's value at every year.
C10_ExtrapolatesPastLast ==
    Returned =>
        /\ (/\ Len(values) >= 2
            /\ IsStrict(values)
            /\ Lt(Num(Last(values)[1]), year))
               => result = Extrapolation(values, year)
        /\ Len(values) = 1 => result = Num(First(values)[2])

\* the example series queried at 2050 gives 50, past the last value 40
C10_Witness ==
    /\ Returned
    /\ values = ExampleSeries
    /\ year = Num(2050)
    /\ result = Num(50)

----------------------------------------------------------------------------
(* Claims about the page (Spec).                                           *)

\* snapshot k of the latest interpolateData call is entity k at the year shown
SnapshotOf(k) ==
    /\ frame[k].name = nations[k].name
    /\ frame[k].region = nations[k].region
    /\ frame[k].income = interpolateValues(nations[k].income, shown.year)
    /\ frame[k].population = interpolateValues(nations[k].population, shown.year)
    /\ frame[k].lifeExpectancy =
           interpolateValues(nations[k].lifeExpectancy, shown.year)
    /\ DOMAIN frame[k] = {"name", "region", "income", "population", "lifeExpectancy"}

FrameMatchesDataset ==
    /\ Len(frame) = Len(nations)
    /\ \A k \in 1..Len(nations) : SnapshotOf(k)

\* C4: interpolateData(year) returns exactly one snapshot per entity, in the
\* order of the entities; snapshot k carries entity k's name and region and
\* the interpolateValues of entity k's three series at that year; the dataset
\* is left unchanged.
C4_OneSnapshotPerEntity ==
    /\ []FrameMatchesDataset
    /\ [][nations' = nations]_vars

\* a frame composed by a pointer-driven displayYear between sample years, for
\* two entities whose population series differ
C4_Witness ==
    /\ shown.by = "pointer"
    /\ shown.year = Frac(StartYear + EndYear, 2)
    /\ Len(frame) >= 2
    /\ frame[1].population # frame[2].population
    /\ frame[1].income # frame[1].population

\* C5: after the initial draw and after every displayYear call, for every
\* adjacent pair (a, b) of the drawn marks population(a) >= population(b).
C5_LargerDrawnFirst ==
    \A j \in 1..(Len(dot) - 1) : Le(radius(dot[j + 1]), radius(dot[j]))

\* the same, for frames in which every population is a finite number
C5_LargerDrawnFirstWhenFinite ==
    (\A j \in 1..Len(dot) : IsFinite(radius(dot[j]))) => C5_LargerDrawnFirst

SweepOver == sweep \in {"ENDED", "INTERRUPTED"}

\* C6: the two sources of the year are mutually exclusive: no pointer
\* handler calls displayYear while the sweep is still running, and no sweep
\* tick calls displayYear after a pointer-driven displayYear has occurred.
C6_SourcesMutuallyExclusive ==
    /\ shown.by = "pointer" => sweep # "RUNNING"
    /\ shown.by = "sweep" => ~scrubbed

\* the sweep's tween runs in this step
TweenRuns == SweepLive /\ (sweep' # sweep \/ elapsed' # elapsed)

C8_YearWithinDomain ==
    /\ Le(Num(StartYear), shown.year)
    /\ Le(shown.year, Num(EndYear))

\* a pointer position left of the scale's range, clamped to the start year
C8_Witness ==
    /\ shown.by = "pointer"
    /\ Lt(shown.at, Num(BoxX + 10))
    /\ shown.year = Num(StartYear)

====
